---------------------------- MODULE Spec2Model ----------------------------
(***************************************************************************)
(* Model of auto_bot.py: a Telegram bot that answers keyword triggers,     *)
(* welcomes new members, reports market prices on request and broadcasts   *)
(* them from a polling loop (scheduled_market_update).                     *)
(*                                                                         *)
(* Two coroutines share one asyncio event loop: the dispatcher (one        *)
(* handler at a time) and the poller task.  The variable running names the *)
(* coroutine that holds the loop's thread; control changes hands only at   *)
(* an await (reply_text, send_message, asyncio.sleep).                     *)
(***************************************************************************)
EXTENDS Integers, Sequences, FiniteSets, TLC

(***************************************************************************)
(* Bounds of the model.                                                    *)
(***************************************************************************)
\* how many of the TICKERS (in their dict order) are configured
NumTickers == 2
\* calendar dates are 1..MaxDate
MaxDate == 2
\* a message text is a concatenation of at most MaxWords words
MaxWords == 2
\* a response file holds at most MaxKeys entries
MaxKeys == 2

(***************************************************************************)
(* Strings as sequences of characters, str.lower(), the "in" operator.     *)
(***************************************************************************)
UpperCase == <<"A","B","C","D","E","F","G","H","I","J","K","L","M",
               "N","O","P","Q","R","S","T","U","V","W","X","Y","Z">>
LowerCase == <<"a","b","c","d","e","f","g","h","i","j","k","l","m",
               "n","o","p","q","r","s","t","u","v","w","x","y","z">>

\* the lowercase letter of every uppercase letter
LowerOf ==
    [c \in {UpperCase[k] : k \in 1..Len(UpperCase)} |->
        LowerCase[CHOOSE k \in 1..Len(UpperCase) : UpperCase[k] = c]]

\* str.lower() on one character
LowerChar(c) == IF c \in DOMAIN LowerOf THEN LowerOf[c] ELSE c

\* str.lower()
Lower(s) == [k \in 1..Len(s) |-> LowerChar(s[k])]

\* sub in s (Python's substring test)
In(sub, s) ==
    \E off \in 0..(Len(s) - Len(sub)) :
        \A k \in 1..Len(sub) : s[off + k] = sub[k]

\* s.startswith(prefix)
StartsWith(s, prefix) ==
    /\ Len(prefix) <= Len(s)
    /\ \A k \in 1..Len(prefix) : s[k] = prefix[k]

PRICE == <<"p","r","i","c","e">>
SLASH_PRICE == <<"/">> \o PRICE
UNDERSCORE == <<"_">>

(***************************************************************************)
(* Market tickers and price observations.                                  *)
(***************************************************************************)
\* TICKERS, in dict (insertion) order
TICKERS == <<"BTC", "ETH", "BNB", "SOL", "XAU">>

\* the configured instruments of this model, in iteration order
TickerNames == SubSeq(TICKERS, 1, NumTickers)
Names == {TickerNames[k] : k \in 1..Len(TickerNames)}

\* a closing price, rounded: a lower and a higher one are all the arrow logic
\* can tell apart
Price == {1, 2}

\* a Python dict is a function; {} is the function with the empty domain
EmptyDict == [x \in {} |-> {}]
\* d[k] = v
Put(d, k, v) == [x \in (DOMAIN d) \cup {k} |-> IF x = k THEN v ELSE d[x]]
Dicts(K, V) == UNION {[D -> V] : D \in SUBSET K}

\* the contents of a JSON file: a dict, or text json.load() rejects
Readable(d) == [ok |-> TRUE, data |-> d]
Corrupt == [ok |-> FALSE, data |-> EmptyDict]

\* the four arrows of get_market_prices
ArrowRight == "right"
ArrowUp == "up"
ArrowDown == "down"
ArrowQuestion == "question"

\* an entry of the batch result: (price, arrow); the price None is the empty set
Entry(price, arrow) == [price |-> {price}, arrow |-> arrow]
Unavailable == [price |-> {}, arrow |-> ArrowQuestion]

\* a fetch ends with a closing price, an empty frame, or a request error
Close(p) == [status |-> "close", price |-> {p}]
\* df.empty (line 96) and an exception of the request (line 95)
EmptyFrame == [status |-> "empty", price |-> {}]
RequestError == [status |-> "error", price |-> {}]
FetchOutcomes == {Close(p) : p \in Price} \cup {EmptyFrame, RequestError}

\* load_last_prices(): the file's dict, or {} when it cannot be read
load_last_prices(file) == IF file.ok THEN file.data ELSE EmptyDict

\* the arrow logic
Arrow(name, current_price, stored) ==
    IF name \notin DOMAIN stored THEN ArrowRight
    ELSE IF current_price > stored[name] THEN ArrowUp
    ELSE IF current_price < stored[name] THEN ArrowDown
    ELSE ArrowRight

(***************************************************************************)
(* The poller's schedule and the clock.                                    *)
(***************************************************************************)
target_times == << <<9, 0>>, <<12, 0>>, <<18, 0>> >>

Dates == 1..MaxDate
\* the wall-clock minutes a wake-up can fall in: midnight, every slot, and a
\* minute that is neither
Instants == { <<0, 0>>, <<9, 0>>, <<9, 1>>, <<12, 0>>, <<18, 0>> }
Clock == [date : Dates, hour : {t[1] : t \in Instants}, minute : {t[2] : t \in Instants}]
Times == {t \in Clock : <<t.hour, t.minute>> \in Instants}

MinuteOfDay(t) == t.hour * 60 + t.minute
NotBefore(t, u) ==
    \/ t.date > u.date
    \/ t.date = u.date /\ MinuteOfDay(t) >= MinuteOfDay(u)

Keys == {<<d, target_times[k][1], target_times[k][2]>> : d \in Dates, k \in 1..Len(target_times)}
KeyOf(t, slot) == <<t.date, slot[1], slot[2]>>

Flows == {"poller", "dispatcher"}

VARIABLES
    last_prices,    \* the global last_prices
    prices_file,    \* the contents of prices.json
    responses,      \* the global responses, an ordered dict: a sequence of entries
    running,        \* the coroutine holding the event loop's thread, or "none"
    pc,             \* pc[f]: where coroutine f stands
    gmp_i,          \* gmp_i[f]: position of f's get_market_prices in TICKERS
    gmp_prices,     \* gmp_prices[f]: the local prices of f's get_market_prices
    now,            \* the poller's now (the last reading of the clock)
    slot_i,         \* the poller's position in target_times
    sent_today,     \* the poller's sent_today
    update,         \* the update the dispatcher handles (or handled last)
    outbox,         \* the messages sent for that update, in order
    raised,         \* raised[f]: the exception that left coroutine f, or "none"
    broadcasts,     \* history: per key, the send_message calls of the poller (counted up to 2)
    fetched,        \* history: fetched[f][n], the price n's fetch gave in f's cycle ({}: it failed)
    last_ok,        \* history: per instrument, the price of its latest successful fetch
    save_failed,    \* history: the latest save_last_prices failed
    file_read       \* history: the response file as the latest reload read it

vars == <<last_prices, prices_file, responses, running, pc, gmp_i, gmp_prices,
          now, slot_i, sent_today, update, outbox, raised, broadcasts, fetched,
          last_ok, save_failed, file_read>>

marketVars == <<last_prices, prices_file, last_ok, save_failed>>
pollerVars == <<now, slot_i, sent_today, broadcasts>>
chatVars == <<responses, update, outbox, file_read>>

NoUpdate == [type |-> "none"]

(***************************************************************************)
(* Messages.  The text of a market report is kept as its title: the time   *)
(* stamp and the lines of format_market_message play no part below.        *)
(***************************************************************************)
GROUP_ID == "group"
LiveTitle == "Live Market Prices"
UpdateTitle == "Market Update"

format_market_message(prices, title) == [kind |-> "market", title |-> title]
Message(chat_id, text) == [chat_id |-> chat_id, text |-> text]

(***************************************************************************)
(* get_market_prices, one instrument per step.  It never awaits, so the    *)
(* coroutine that runs it keeps the thread from its first step to its      *)
(* return.                                                                 *)
(***************************************************************************)
InFetch(f) == pc[f] = "fetch"

\* the entry into get_market_prices (line 92)
EnterGetMarketPrices(f) ==
    /\ pc' = [pc EXCEPT ![f] = "fetch"]
    /\ gmp_i' = [gmp_i EXCEPT ![f] = 1]
    /\ gmp_prices' = [gmp_prices EXCEPT ![f] = EmptyDict]
    /\ fetched' = [fetched EXCEPT ![f] = EmptyDict]
    /\ running' = f

\* the locals of get_market_prices die with the call
LeaveGetMarketPrices(f) ==
    /\ gmp_i' = [gmp_i EXCEPT ![f] = 0]
    /\ gmp_prices' = [gmp_prices EXCEPT ![f] = EmptyDict]
    /\ fetched' = [fetched EXCEPT ![f] = EmptyDict]

\* a faulty variant of StoreObservation: the new price is not stored
StoreNothing(stored, name, current_price) == stored

\* a faulty variant of StoreObservation: the new price is all that is kept
StoreOnlyThis(stored, name, current_price) == Put(EmptyDict, name, current_price)

\* last_prices[name] = current_price
StoreObservation(stored, name, current_price) == Put(stored, name, current_price)

\* a faulty variant of FailedEntry: the failed instrument is left out of the batch
FailedEntryDropped(prices, name) == prices

\* the except branch: prices[name] = (None, question mark)
FailedEntry(prices, name) == Put(prices, name, Unavailable)

\* one pass of the loop body, lines 93-110
FetchTicker(f) ==
    /\ running = f
    /\ InFetch(f)
    /\ gmp_i[f] <= Len(TickerNames)
    /\ LET name == TickerNames[gmp_i[f]] IN
       \E o \in FetchOutcomes :
          /\ IF o.status = "close"
             THEN LET current_price == CHOOSE p \in o.price : TRUE
                      arrow == Arrow(name, current_price, last_prices)
                  IN /\ last_prices' = StoreObservation(last_prices, name, current_price)
                     /\ gmp_prices' = [gmp_prices EXCEPT
                                          ![f] = Put(@, name, Entry(current_price, arrow))]
                     /\ last_ok' = Put(last_ok, name, current_price)
             ELSE /\ gmp_prices' = [gmp_prices EXCEPT ![f] = FailedEntry(@, name)]
                  /\ UNCHANGED <<last_prices, last_ok>>
          /\ fetched' = [fetched EXCEPT ![f] = Put(@, name, o.price)]
    /\ gmp_i' = [gmp_i EXCEPT ![f] = @ + 1]
    /\ UNCHANGED <<prices_file, save_failed, responses, running, pc, now, slot_i,
                   sent_today, update, outbox, raised, broadcasts, file_read>>

LoopDone(f) == InFetch(f) /\ gmp_i[f] > Len(TickerNames)

\* a faulty variant of save_last_prices: only this cycle's prices are written
save_batch_only(prices, batch) ==
    Readable([n \in {m \in DOMAIN batch : batch[m].price # {}} |-> prices[n]])

\* save_last_prices(prices): the file after a write that succeeds
save_last_prices(prices, batch) == Readable(prices)

Inc(n) == IF n < 2 THEN n + 1 ELSE n

\* what the caller does with the batch: format it and send it (lines 134-135,
\* 182-183); the await of the send gives the thread up
SendReport(f) ==
    IF f = "poller"
    THEN LET key == KeyOf(now, target_times[slot_i]) IN
         /\ broadcasts' = [broadcasts EXCEPT ![key] = Inc(@)]
         /\ pc' = [pc EXCEPT ![f] = "send"]
         /\ UNCHANGED outbox
    ELSE /\ outbox' = Append(outbox,
                Message(update.chat, format_market_message(gmp_prices[f], LiveTitle)))
         /\ pc' = [pc EXCEPT ![f] = "reply"]
         /\ UNCHANGED broadcasts

\* an exception leaves the coroutine: the poller task ends; the dispatcher
\* logs it and drops the update
Raise(f, exc) ==
    /\ raised' = [raised EXCEPT ![f] = exc]
    /\ pc' = [pc EXCEPT ![f] = IF f = "poller" THEN "dead" ELSE "idle"]
    /\ running' = "none"

\* line 111-112 and the caller's next statements
SaveAndReturn(f) ==
    /\ running = f
    /\ LoopDone(f)
    /\ prices_file' = save_last_prices(last_prices, gmp_prices[f])
    /\ save_failed' = FALSE
    /\ SendReport(f)
    /\ running' = "none"
    /\ LeaveGetMarketPrices(f)
    /\ UNCHANGED <<last_prices, last_ok, responses, now, slot_i, sent_today, update,
                   raised, file_read>>

\* line 70-71 raising OSError: open() fails and the file is as it was, or the
\* write fails after open() has truncated it
SaveFails(f) ==
    /\ running = f
    /\ LoopDone(f)
    /\ \E left \in {prices_file, Corrupt} : prices_file' = left
    /\ save_failed' = TRUE
    /\ Raise(f, "OSError")
    /\ LeaveGetMarketPrices(f)
    /\ UNCHANGED <<last_prices, last_ok, responses, now, slot_i, sent_today, update,
                   outbox, broadcasts, file_read>>

(***************************************************************************)
(* scheduled_market_update                                                 *)
(***************************************************************************)
\* a faulty variant of ShouldFire: the fired set is not consulted
ShouldFireAlways(t, slot, sent) ==
    t.hour = slot[1] /\ t.minute = slot[2]

\* a faulty variant of ShouldFire: a slot whose minute has passed is caught up
ShouldFireCatchUp(t, slot, sent) ==
    /\ MinuteOfDay(t) >= slot[1] * 60 + slot[2]
    /\ KeyOf(t, slot) \notin sent

\* the condition of line 180
ShouldFire(t, slot, sent) ==
    /\ t.hour = slot[1]
    /\ t.minute = slot[2]
    /\ KeyOf(t, slot) \notin sent

\* the sleep of line 187 ends and line 177 reads the clock, which has not gone back
PollerWake ==
    /\ running = "none"
    /\ pc["poller"] = "sleep"
    /\ \E t \in Times :
          /\ NotBefore(t, now)
          /\ now' = t
    /\ slot_i' = 1
    /\ pc' = [pc EXCEPT !["poller"] = "slots"]
    /\ running' = "poller"
    /\ UNCHANGED <<marketVars, chatVars, gmp_i, gmp_prices, sent_today, raised,
                   broadcasts, fetched>>

\* lines 178-181: one slot of the for loop
PollerSlot ==
    /\ running = "poller"
    /\ pc["poller"] = "slots"
    /\ slot_i <= Len(target_times)
    /\ IF ShouldFire(now, target_times[slot_i], sent_today)
       THEN /\ EnterGetMarketPrices("poller")
            /\ UNCHANGED slot_i
       ELSE /\ slot_i' = slot_i + 1
            /\ UNCHANGED <<pc, gmp_i, gmp_prices, fetched, running>>
    /\ UNCHANGED <<marketVars, chatVars, now, sent_today, raised, broadcasts>>

\* line 183 returns, line 184
PollerSent ==
    /\ running = "none"
    /\ pc["poller"] = "send"
    /\ sent_today' = sent_today \cup {KeyOf(now, target_times[slot_i])}
    /\ slot_i' = slot_i + 1
    /\ pc' = [pc EXCEPT !["poller"] = "slots"]
    /\ running' = "poller"
    /\ UNCHANGED <<marketVars, chatVars, gmp_i, gmp_prices, now, raised, broadcasts,
                   fetched>>

\* line 183 raises (the chat platform refuses or cannot be reached)
PollerSendFails ==
    /\ running = "none"
    /\ pc["poller"] = "send"
    /\ Raise("poller", "TelegramError")
    /\ UNCHANGED <<marketVars, chatVars, pollerVars, gmp_i, gmp_prices, fetched>>

\* lines 185-186
MidnightClear(t, sent) == IF t.hour = 0 /\ t.minute = 0 THEN {} ELSE sent

\* lines 185-187: the end of one pass of the while loop
PollerSleep ==
    /\ running = "poller"
    /\ pc["poller"] = "slots"
    /\ slot_i > Len(target_times)
    /\ sent_today' = MidnightClear(now, sent_today)
    /\ pc' = [pc EXCEPT !["poller"] = "sleep"]
    /\ running' = "none"
    /\ UNCHANGED <<marketVars, chatVars, gmp_i, gmp_prices, now, slot_i, raised,
                   broadcasts, fetched>>

(***************************************************************************)
(* The response table: an ordered dict, a sequence of (keyword, reply).    *)
(***************************************************************************)
hello == <<"h","e","l","l","o">>
help == <<"h","e","l","p">>
Hello == <<"H","e","l","l","o">>
welcome_key == <<"_","w","e","l","c","o","m","e">>
reload_success_key ==
    <<"_","r","e","l","o","a","d","_","s","u","c","c","e","s","s">>
PRICE_UPPER == <<"P","R","I","C","E">>

Item(keyword, reply) == [keyword |-> keyword, reply |-> reply]

\* default_responses, lines 35-40
default_responses ==
    << Item(hello, "hello!"), Item(help, "commands"),
       Item(welcome_key, "welcome {name}"), Item(reload_success_key, "reloaded") >>

\* the entries a response file is made of
FileItems ==
    { Item(hello, "hi"), Item(help, "usage"), Item(Hello, "Hi"),
      Item(welcome_key, "greetings {name}") }

RECURSIVE TablesOfLen(_)
TablesOfLen(k) ==
    IF k = 0 THEN {<<>>}
    ELSE {Append(t, it) : t \in TablesOfLen(k - 1),
                          it \in FileItems}

\* a JSON object has each key once
Distinct(t) == \A i, j \in 1..Len(t) : t[i].keyword = t[j].keyword => i = j
Tables == {t \in UNION {TablesOfLen(k) : k \in 0..MaxKeys} : Distinct(t)}

\* what responses.json can hold: a table, or nothing json.load() accepts
\* (the file is missing or corrupt)
Unreadable == [ok |-> FALSE, data |-> <<>>]
ResponseFiles == {Readable(t) : t \in Tables} \cup {Unreadable}

\* load_responses(), lines 78-83
load_responses(file) == IF file.ok THEN file.data ELSE <<>>

\* responses.get(key, default)
Get(table, key, default) ==
    IF \E i \in 1..Len(table) : table[i].keyword = key
    THEN table[CHOOSE i \in 1..Len(table) : table[i].keyword = key].reply
    ELSE default

\* the words a message text is made of
Words == {hello, Hello, help, PRICE, PRICE_UPPER, welcome_key}
PlainWords == {hello, Hello, help, welcome_key}

RECURSIVE Concats(_, _)
Concats(W, k) ==
    IF k = 0 THEN {<<>>}
    ELSE Concats(W, k - 1) \cup {t \o w : t \in Concats(W, k - 1), w \in W}

Texts == Concats(Words, MaxWords)
PlainTexts == Concats(PlainWords, MaxWords)

(***************************************************************************)
(* The dispatcher: one update at a time.                                   *)
(***************************************************************************)
Chats == {GROUP_ID, "private"}
Statuses == {"creator", "administrator", "member", "restricted", "left", "kicked"}

DispatcherIdle == running = "none" /\ pc["dispatcher"] = "idle"

\* an update arrives and its handler starts
Accept(u) ==
    /\ update' = u
    /\ raised' = [raised EXCEPT !["dispatcher"] = "none"]

\* the handler sends m and awaits the send, its last statement
SendAndAwait(m) ==
    /\ outbox' = <<m>>
    /\ pc' = [pc EXCEPT !["dispatcher"] = "reply"]

\* the handler returns without sending
ReturnSilently ==
    /\ outbox' = <<>>
    /\ UNCHANGED pc

\* CommandHandler("price", handle_price_request), line 133
PriceCommand ==
    /\ DispatcherIdle
    /\ Accept([type |-> "price", chat |-> GROUP_ID])
    /\ outbox' = <<>>
    /\ EnterGetMarketPrices("dispatcher")
    /\ UNCHANGED <<marketVars, pollerVars, responses, file_read>>

\* the await of reply_text or send_message ends, and with it the handler
HandlerDone ==
    /\ running = "none"
    /\ pc["dispatcher"] = "reply"
    /\ pc' = [pc EXCEPT !["dispatcher"] = "idle"]
    /\ UNCHANGED <<marketVars, pollerVars, chatVars, running, gmp_i, gmp_prices,
                   raised, fetched>>

\* line 141
IsPriceRequest(msg) == In(PRICE, msg) \/ StartsWith(msg, SLASH_PRICE)

\* lines 144-149: the index of the entry whose reply is sent, 0 if none is
RECURSIVE Scan(_, _, _)
Scan(table, msg, i) ==
    IF i > Len(table) THEN 0
    ELSE IF StartsWith(table[i].keyword, UNDERSCORE) THEN Scan(table, msg, i + 1)
    ELSE IF In(table[i].keyword, msg) THEN i
    ELSE Scan(table, msg, i + 1)

\* MessageHandler(filters.TEXT & ~filters.COMMAND, auto_reply), lines 137-149
AutoReply(text) ==
    /\ DispatcherIdle
    /\ Accept([type |-> "text", chat |-> GROUP_ID, text |-> text])
    /\ IF text = <<>>
       THEN /\ ReturnSilently
            /\ UNCHANGED <<running, gmp_i, gmp_prices, fetched>>
       ELSE LET msg == Lower(text) IN
            IF IsPriceRequest(msg)
            THEN /\ outbox' = <<>>
                 /\ EnterGetMarketPrices("dispatcher")
            ELSE LET i == Scan(responses, msg, 1) IN
                 /\ IF i = 0
                    THEN ReturnSilently
                    ELSE SendAndAwait(Message(GROUP_ID,
                            [kind |-> "reply", body |-> responses[i].reply]))
                 /\ UNCHANGED <<running, gmp_i, gmp_prices, fetched>>
    /\ UNCHANGED <<marketVars, pollerVars, responses, file_read>>

\* a faulty variant of WelcomeCondition: the old status is not looked at
JoinsWhatever(old_status, new_status) == new_status = "member"

\* line 155
WelcomeCondition(old_status, new_status) ==
    old_status \in {"left", "kicked"} /\ new_status = "member"

\* ChatMemberHandler(welcome), lines 151-163
Welcome(chat, old_status, new_status) ==
    /\ DispatcherIdle
    /\ Accept([type |-> "chat_member", chat |-> chat,
               old_status |-> old_status, new_status |-> new_status])
    /\ IF WelcomeCondition(old_status, new_status)
       THEN SendAndAwait(Message(chat,
               [kind |-> "welcome",
                template |-> Get(responses, welcome_key, "welcome default")]))
       ELSE ReturnSilently
    /\ UNCHANGED <<marketVars, pollerVars, responses, file_read, running, gmp_i,
                   gmp_prices, fetched>>

\* a faulty variant of Reloaded: an unreadable file leaves the table as it was
ReloadedOrKept(table, file) == IF file.ok THEN file.data ELSE table

\* line 167: the table after the reload
Reloaded(table, file) == load_responses(file)

\* CommandHandler("reload", reload_responses), lines 165-168
ReloadResponses ==
    /\ DispatcherIdle
    /\ Accept([type |-> "reload", chat |-> GROUP_ID])
    /\ \E file \in ResponseFiles :
          /\ file_read' = file
          /\ responses' = Reloaded(responses, file)
          /\ SendAndAwait(Message(GROUP_ID,
                [kind |-> "reply",
                 body |-> Get(Reloaded(responses, file), reload_success_key, "Reloaded!")]))
    /\ UNCHANGED <<marketVars, pollerVars, running, gmp_i, gmp_prices, fetched>>

(***************************************************************************)
(* The program after start-up.                                             *)
(***************************************************************************)
InitControl ==
    /\ save_failed = FALSE
    /\ running = "none"
    /\ pc = [f \in Flows |-> IF f = "poller" THEN "sleep" ELSE "idle"]
    /\ gmp_i = [f \in Flows |-> 0]
    /\ gmp_prices = [f \in Flows |-> EmptyDict]
    /\ fetched = [f \in Flows |-> EmptyDict]
    /\ slot_i = 1
    /\ sent_today = {}
    /\ update = NoUpdate
    /\ outbox = <<>>
    /\ raised = [f \in Flows |-> "none"]
    /\ broadcasts = [k \in Keys |-> 0]

\* prices.json as an earlier run left it (line 73)
InitPrices ==
    \E d \in Dicts(Names, Price) :
       /\ prices_file = Readable(d)
       /\ last_prices = load_last_prices(Readable(d))
       /\ last_ok = d

\* prices.json did not exist (lines 44-46)
InitNoPrices ==
    /\ prices_file = Readable(EmptyDict)
    /\ last_prices = load_last_prices(Readable(EmptyDict))
    /\ last_ok = EmptyDict

\* responses.json did not exist: the defaults were written and loaded (lines 34-42, 85)
InitDefaultResponses ==
    /\ responses = default_responses
    /\ file_read = Readable(default_responses)

\* responses.json as it was found (line 85)
InitResponses ==
    \E file \in ResponseFiles \cup {Readable(default_responses)} :
       /\ responses = load_responses(file)
       /\ file_read = file

\* a first deployment, started on the last date of the calendar
Init ==
    /\ InitControl
    /\ InitNoPrices
    /\ InitDefaultResponses
    /\ now = [date |-> MaxDate, hour |-> 0, minute |-> 0]

\* the poller task and the price command, sharing the event loop
Next ==
    \/ PollerWake
    \/ PollerSlot
    \/ PollerSent
    \/ PollerSendFails
    \/ PollerSleep
    \/ \E f \in Flows : FetchTicker(f)
    \/ \E f \in Flows : SaveAndReturn(f)
    \/ \E f \in Flows : SaveFails(f)
    \/ PriceCommand
    \/ HandlerDone

Spec == Init /\ [][Next]_vars

\* the poller task alone, from the first date on
InitPoller ==
    /\ InitControl
    /\ InitPrices
    /\ InitDefaultResponses
    /\ now = [date |-> 1, hour |-> 0, minute |-> 0]

NextPoller ==
    \/ PollerWake
    \/ PollerSlot
    \/ PollerSent
    \/ PollerSendFails
    \/ PollerSleep
    \/ FetchTicker("poller")
    \/ SaveAndReturn("poller")
    \/ SaveFails("poller")

SpecPoller == InitPoller /\ [][NextPoller]_vars

\* price requests alone
InitPrice ==
    /\ InitControl
    /\ InitPrices
    /\ InitDefaultResponses
    /\ now = [date |-> 1, hour |-> 0, minute |-> 0]

NextPrice ==
    \/ PriceCommand
    \/ FetchTicker("dispatcher")
    \/ SaveAndReturn("dispatcher")
    \/ SaveFails("dispatcher")
    \/ HandlerDone

SpecPrice == InitPrice /\ [][NextPrice]_vars

\* text messages, with the price requests among them
InitChat ==
    /\ InitControl
    /\ InitNoPrices
    /\ InitDefaultResponses
    /\ now = [date |-> 1, hour |-> 0, minute |-> 0]

NextChat ==
    \/ \E text \in Texts : AutoReply(text)
    \/ FetchTicker("dispatcher")
    \/ SaveAndReturn("dispatcher")
    \/ SaveFails("dispatcher")
    \/ HandlerDone

SpecChat == InitChat /\ [][NextChat]_vars

\* the response table: keyword replies, welcomes and reloads
NextTable ==
    \/ \E text \in PlainTexts : AutoReply(text)
    \/ \E chat \in Chats, old_status, new_status \in Statuses :
          Welcome(chat, old_status, new_status)
    \/ ReloadResponses
    \/ HandlerDone

InitTable ==
    /\ InitControl
    /\ InitNoPrices
    /\ InitResponses
    /\ now = [date |-> 1, hour |-> 0, minute |-> 0]

SpecTable == InitTable /\ [][NextTable]_vars

(***************************************************************************)
(* Properties.                                                             *)
(***************************************************************************)
\* the poller stands at a slot whose hour and minute are those of now
AtMatchingSlot ==
    /\ running = "poller"
    /\ pc["poller"] = "slots"
    /\ slot_i <= Len(target_times)
    /\ now.hour = target_times[slot_i][1]
    /\ now.minute = target_times[slot_i][2]

\* C1: however the wake-ups fall (several of them in one minute included), no
\* slot is broadcast more than once on one calendar date; and a wake-up in the
\* minute of a slot that has not been broadcast on that date starts its
\* broadcast, whatever fired on the dates before.
C1_OncePerSlotPerDate ==
    /\ [](\A k \in Keys : broadcasts[k] <= 1)
    /\ [][(AtMatchingSlot /\ broadcasts[KeyOf(now, target_times[slot_i])] = 0)
             => pc'["poller"] = "fetch"]_vars

\* the 9:00 slot was broadcast on date 1 and again on date 2
C1_Witness ==
    /\ broadcasts[<<1, 9, 0>>] = 1
    /\ broadcasts[<<2, 9, 0>>] = 1

\* the arrow the claim gives a new price p of instrument n, from the price the
\* latest successful fetch of n gave (first-seen and flat are the same arrow)
TrendOf(n, p) ==
    IF n \notin DOMAIN last_ok THEN ArrowRight
    ELSE IF p > last_ok[n] THEN ArrowUp
    ELSE IF p < last_ok[n] THEN ArrowDown
    ELSE ArrowRight

\* C2: when the fetch of an instrument succeeds, its entry in the batch is the
\* new price with the arrow that compares it with the price of the latest
\* earlier successful fetch of that instrument: right if there is none, up if
\* it is higher, down if lower, right if equal.
C2_TrendFromLastSuccess ==
    [][\A f \in Flows : \A n \in Names :
          (/\ n \notin DOMAIN fetched[f]
           /\ n \in DOMAIN fetched'[f]
           /\ fetched'[f][n] # {})
          => \E p \in fetched'[f][n] :
                /\ n \in DOMAIN gmp_prices'[f]
                /\ gmp_prices'[f][n] = [price |-> {p}, arrow |-> TrendOf(n, p)]]_vars

\* a cycle in which the first instrument failed and the second one, observed
\* before, fell
C2_Witness ==
    /\ LoopDone("dispatcher")
    /\ fetched["dispatcher"][TickerNames[1]] = {}
    /\ gmp_prices["dispatcher"][TickerNames[2]].arrow = ArrowDown

Processed(f) == {TickerNames[k] : k \in 1..(gmp_i[f] - 1)}

\* C3: a failed fetch does not end get_market_prices: the loop goes on to the
\* next instrument, the batch holds one entry for every instrument processed
\* (all of them when the loop is done), and the entry of a failed one is
\* (None, question mark).
C3_FailedFetchIsAnEntry ==
    \A f \in Flows :
       InFetch(f) =>
          /\ DOMAIN fetched[f] = Processed(f)
          /\ DOMAIN gmp_prices[f] = Processed(f)
          /\ LoopDone(f) => DOMAIN gmp_prices[f] = Names
          /\ \A n \in Processed(f) :
                fetched[f][n] = {} =>
                   gmp_prices[f][n] = [price |-> {}, arrow |-> "question"]

\* the first instrument failed and the next one was fetched all the same
C3_Witness ==
    /\ LoopDone("dispatcher")
    /\ fetched["dispatcher"][TickerNames[1]] = {}
    /\ fetched["dispatcher"][TickerNames[2]] # {}
    /\ gmp_prices["dispatcher"][TickerNames[1]].arrow = ArrowQuestion

\* the handler of the latest text update has run to its last statement
TextHandled == update.type = "text" /\ pc["dispatcher"] \in {"idle", "reply"}

\* the entries of the table that are not reserved and whose keyword is in msg
Matching(table, msg) ==
    {i \in 1..Len(table) :
        /\ ~StartsWith(table[i].keyword, UNDERSCORE)
        /\ In(table[i].keyword, msg)}

First(S) == CHOOSE i \in S : \A j \in S : i <= j

KeywordReply(table, i) == Message(update.chat, [kind |-> "reply", body |-> table[i].reply])

\* C4: a text message gets at most one reply: the price report, and nothing
\* else, when the (lowercased) text contains "price"; otherwise the reply of
\* the first entry in table order that is not reserved and whose keyword is in
\* the text; nothing when there is no such entry.
C4_OneReplyPriceFirst ==
    TextHandled =>
       LET msg == Lower(update.text) IN
       /\ Len(outbox) <= 1
       /\ IF In(PRICE, msg)
          THEN Len(outbox) = 1 /\ outbox[1].text.kind = "market"
          ELSE IF Matching(responses, msg) = {}
               THEN outbox = <<>>
               ELSE outbox = <<KeywordReply(responses, First(Matching(responses, msg)))>>

\* what is left of C4 when prices.json cannot be written: the price request
\* is then the one text message that gets no reply
C4_UnlessWriteFails ==
    TextHandled =>
       LET msg == Lower(update.text) IN
       /\ Len(outbox) <= 1
       /\ IF In(PRICE, msg)
          THEN IF raised["dispatcher"] = "OSError"
               THEN outbox = <<>>
               ELSE Len(outbox) = 1 /\ outbox[1].text.kind = "market"
          ELSE IF Matching(responses, msg) = {}
               THEN outbox = <<>>
               ELSE outbox = <<KeywordReply(responses, First(Matching(responses, msg)))>>

\* C5: the scan ignores letter case on both sides: when the text has no
\* "price" in it and some entry that is not reserved has its keyword in the
\* text once both are lowercased, the reply of the first such entry is sent.
C5_ScanIgnoresCase ==
    TextHandled =>
       LET msg == Lower(update.text)
           lowered == [i \in 1..Len(responses) |->
                          Item(Lower(responses[i].keyword), responses[i].reply)]
       IN (~In(PRICE, msg) /\ Matching(lowered, msg) # {})
             => outbox = <<KeywordReply(responses, First(Matching(lowered, msg)))>>

\* C6: the table in memory is what the latest read of responses.json found,
\* the empty table when the file was missing or corrupt, and no entry of the
\* table before it is left; the replies and welcomes sent since come from it.
C6_ReloadReplacesTable ==
    /\ file_read.ok => responses = file_read.data
    /\ ~file_read.ok => responses = <<>>
    /\ (update.type = "text" /\ outbox # <<>>) =>
          \E i \in 1..Len(file_read.data) :
             outbox[1].text.body = file_read.data[i].reply
    /\ (update.type = "chat_member" /\ outbox # <<>>) =>
          \/ \E i \in 1..Len(file_read.data) :
                /\ file_read.data[i].keyword = welcome_key
                /\ outbox[1].text.template = file_read.data[i].reply
          \/ /\ \A i \in 1..Len(file_read.data) : file_read.data[i].keyword # welcome_key
             /\ outbox[1].text.template = "welcome default"

\* a reload found no readable file and the table is empty
C6_Witness ==
    /\ update.type = "reload"
    /\ ~file_read.ok
    /\ responses = <<>>
    /\ pc["dispatcher"] = "idle"

\* no get_market_prices is running
NoCycle == \A f \in Flows : ~InFetch(f)

\* C7: between the fetch cycles, and unless the latest write failed,
\* prices.json holds the observation set in memory, which is the latest
\* successful price of every instrument ever fetched; and the poller and the
\* dispatcher are never inside get_market_prices together.
C7_FileIsObservationSet ==
    /\ (NoCycle /\ ~save_failed) =>
          /\ prices_file.ok
          /\ prices_file.data = last_prices
          /\ last_prices = last_ok
    /\ ~(InFetch("poller") /\ InFetch("dispatcher"))

\* the dispatcher has fetched every instrument while the poller awaited its send
C7_Witness ==
    /\ pc["poller"] = "send"
    /\ pc["dispatcher"] = "reply"
    /\ DOMAIN prices_file.data = Names
    /\ NoCycle

\* C8: a write of prices.json that fails does not leave get_market_prices:
\* no OSError ends a price request or the poller.
C8_WriteFailureNotFatal ==
    \A f \in Flows : raised[f] # "OSError"

\* C9: the poller never stops.
C9_PollerNeverStops ==
    pc["poller"] # "dead"

\* C10: a membership change is welcomed, once and in its own chat, exactly
\* when the old status is left or kicked and the new one is member.
C10_WelcomeOnJoin ==
    update.type = "chat_member" =>
       IF update.old_status \in {"left", "kicked"} /\ update.new_status = "member"
       THEN /\ Len(outbox) = 1
            /\ outbox[1].chat_id = update.chat
            /\ outbox[1].text.kind = "welcome"
       ELSE outbox = <<>>

\* a member who had been kicked joined a chat other than the group
C10_Witness ==
    /\ update.type = "chat_member"
    /\ update.old_status = "kicked"
    /\ update.new_status = "member"
    /\ update.chat = "private"
    /\ Len(outbox) = 1

\* a pass of the while loop is over and the poller sleeps
PassDone == pc["poller"] = "sleep"

\* C11: once a wake-up has run to its sleep, the fired set holds no key of a
\* date before the date of that wake-up, whether or not a wake-up fell in the
\* minute 00:00.
C11_ClearedAcrossMidnight ==
    PassDone => \A k \in sent_today : k[1] >= now.date

\* what the code does keep: a wake-up in the minute 00:00 empties the set, and
\* the set never holds a key of a date after the date of the latest wake-up
C11_ClearedAtMidnightMinute ==
    /\ (PassDone /\ now.hour = 0 /\ now.minute = 0) => sent_today = {}
    /\ \A k \in sent_today : k[1] <= now.date

\* C12: the send_message of a slot is called only in a pass of the loop
\* whose reading of the clock has the date, the hour and the minute of the
\* slot's key: a slot whose minute saw no wake-up is not made up for later.
C12_OnlyInItsMinute ==
    [][\A k \in Keys :
          broadcasts'[k] # broadcasts[k] =>
             /\ running = "poller"
             /\ now' = now
             /\ now.date = k[1]
             /\ now.hour = k[2]
             /\ now.minute = k[3]]_vars

\* on date 1 no wake-up fell in 9:00: the 12:00 slot was broadcast, the 9:00
\* slot was not, and date 2 has come
C12_Witness ==
    /\ broadcasts[<<1, 9, 0>>] = 0
    /\ broadcasts[<<1, 12, 0>>] = 1
    /\ now.date = 2
    /\ PassDone

\* the pass of the latest wake-up is over: the poller sleeps, or has ended
PassOver == pc["poller"] \in {"sleep", "dead"}

\* the latest wake-up fell in the minute of slot
WokeInMinuteOf(slot) == now.hour = slot[1] /\ now.minute = slot[2]

\* C13: after a wake-up in the minute of a slot, unless send_message failed,
\* the slot has been broadcast on that date (once) and its key is in the
\* fired set.
C13_SlotMinuteBroadcasts ==
    \A i \in 1..Len(target_times) :
       (/\ PassOver
        /\ raised["poller"] # "TelegramError"
        /\ WokeInMinuteOf(target_times[i]))
       => /\ broadcasts[KeyOf(now, target_times[i])] = 1
          /\ KeyOf(now, target_times[i]) \in sent_today

\* what is left of C13 when prices.json cannot be written: the statement
\* holds of the passes that reach their sleep
C13_UnlessWriteFails ==
    \A i \in 1..Len(target_times) :
       (PassDone /\ WokeInMinuteOf(target_times[i]))
       => /\ broadcasts[KeyOf(now, target_times[i])] = 1
          /\ KeyOf(now, target_times[i]) \in sent_today

\* the step is the fetch of instrument n in the cycle of f
FetchOf(f, n) == n \notin DOMAIN fetched[f] /\ n \in DOMAIN fetched'[f]

\* C14: a failed fetch leaves last_prices as it was; a successful fetch of an
\* instrument sets that instrument's observation to the new price and leaves
\* every other one as it was; no other step changes last_prices; so no
\* instrument ever leaves it.
C14_ObservationsOnlyGrow ==
    [][/\ DOMAIN last_prices \subseteq DOMAIN last_prices'
       /\ \A f \in Flows : \A n \in Names :
             FetchOf(f, n) =>
                IF fetched'[f][n] = {}
                THEN last_prices' = last_prices
                ELSE /\ DOMAIN last_prices' = DOMAIN last_prices \cup {n}
                     /\ {last_prices'[n]} = fetched'[f][n]
                     /\ \A m \in DOMAIN last_prices :
                           m # n => last_prices'[m] = last_prices[m]
       /\ (\A f \in Flows : \A n \in Names : ~FetchOf(f, n))
             => last_prices' = last_prices]_vars

\* a cycle in which the fetch of the first instrument failed and its earlier
\* observation is still there, while the second one was fetched
C14_Witness ==
    /\ LoopDone("dispatcher")
    /\ fetched["dispatcher"][TickerNames[1]] = {}
    /\ TickerNames[1] \in DOMAIN last_prices
    /\ fetched["dispatcher"][TickerNames[2]] # {}
    /\ {last_prices[TickerNames[2]]} = fetched["dispatcher"][TickerNames[2]]

=============================================================================
